---------------------------- MODULE Spec2Model ----------------------------
(***************************************************************************)
(* Model of app.py: the watcher callback on_any_event, the ingest stage    *)
(* (wait_for_file_ready, execute_ocrmypdf) and the classification stage    *)
(* (process_pdf, autocorrect_match).                                       *)
(*                                                                         *)
(* Four specifications: Spec is main followed by the handling of events    *)
(* one at a time with the failures of every step; SpecWatch is the         *)
(* observer's queue and the invocations of the handler it starts;          *)
(* SpecAuto applies autocorrect_match to the candidates of the pattern of  *)
(* line 151; SpecName applies the naming of lines 151-161 to texts with    *)
(* many codes.                                                             *)
(*                                                                         *)
(* File names and reference codes are Python strings; they are modelled as *)
(* sequences of one-character strings so that slicing, zfill, startswith   *)
(* and comparison are computed as the code computes them.                  *)
(*                                                                         *)
(* Lines 158-173 of app.py are mis-indented (an `else:` at the indentation *)
(* of the statements before it).  The model reads them the only way that   *)
(* agrees with the messages printed by the two branches: lines 158-170 are *)
(* the body of `if matches:` (line 154) and lines 172-173 its else branch. *)
(***************************************************************************)
EXTENDS Integers, Sequences, FiniteSets, TLC

(***************************************************************************)
(* Bounds of the model.                                                    *)
(***************************************************************************)
MaxFiles == 2      \* number of 'created' events delivered in one behaviour
MaxRetries == 3    \* largest value of RETRIES_LOADING_FILE explored
MaxSpin == 3       \* how far below zero a negative retry counter is followed
MaxPO == 14        \* most PO codes found in the text of one document
MaxSPO == 4        \* most SPO codes found in the text of one document

(***************************************************************************)
(* Python str helpers.                                                     *)
(***************************************************************************)
Upper == {"A","B","C","D","E","F","G","H","I","J","K","L","M",
          "N","O","P","Q","R","S","T","U","V","W","X","Y","Z"}
Digit == {"0","1","2","3","4","5","6","7","8","9"}

\* code points of the characters that occur in names, in ASCII order
Alphabet == <<" ", "(", ")", "-", ".",
              "0","1","2","3","4","5","6","7","8","9",
              "A","B","C","D","E","F","G","H","I","J","K","L","M",
              "N","O","P","Q","R","S","T","U","V","W","X","Y","Z",
              "_",
              "a","b","c","d","e","f","g","h","i","j","k","l","m",
              "n","o","p","q","r","s","t","u","v","w","x","y","z">>

Ord(c) == CHOOSE i \in 1..Len(Alphabet) : Alphabet[i] = c

\* s[k:] with k >= 0 (Python slice, 0-based start)
From(s, k) == SubSeq(s, k + 1, Len(s))

\* s[:k] with k >= 0
Take(s, k) == SubSeq(s, 1, IF k < Len(s) THEN k ELSE Len(s))

\* s[:-k] with k > 0
DropLast(s, k) == SubSeq(s, 1, Len(s) - k)

startswith(s, p) == Len(s) >= Len(p) /\ SubSeq(s, 1, Len(p)) = p

endswith(s, p) ==
    Len(s) >= Len(p) /\ SubSeq(s, Len(s) - Len(p) + 1, Len(s)) = p

\* s.replace(a, b) for one-character a and b
replace(s, a, b) == [i \in 1..Len(s) |-> IF s[i] = a THEN b ELSE s[i]]

\* s.replace(" ", "")
strip_spaces(s) == SelectSeq(s, LAMBDA c : c # " ")

RECURSIVE zfill(_, _)
zfill(s, w) == IF Len(s) >= w THEN s ELSE zfill(<<"0">> \o s, w)

\* str(n) for n >= 0
DigitChar(d) == <<"0","1","2","3","4","5","6","7","8","9">>[d + 1]

RECURSIVE str(_)
str(n) == IF n < 10 THEN <<DigitChar(n)>>
          ELSE str(n \div 10) \o <<DigitChar(n % 10)>>

\* a < b for Python strings (lexicographic by code point)
RECURSIVE StrLess(_, _)
StrLess(a, b) ==
    IF b = <<>> THEN FALSE
    ELSE IF a = <<>> THEN TRUE
    ELSE IF a[1] # b[1] THEN Ord(a[1]) < Ord(b[1])
    ELSE StrLess(Tail(a), Tail(b))

\* list(set(xs)); xs.sort()
RECURSIVE sorted(_)
sorted(S) ==
    IF S = {} THEN <<>>
    ELSE LET m == CHOOSE x \in S : \A y \in S \ {x} : StrLess(x, y)
         IN  <<m>> \o sorted(S \ {m})

\* sep.join(xs)
RECURSIVE join(_, _)
join(sep, xs) ==
    IF xs = <<>> THEN <<>>
    ELSE IF Len(xs) = 1 THEN xs[1]
    ELSE xs[1] \o sep \o join(sep, Tail(xs))

Range(f) == {f[i] : i \in DOMAIN f}

(***************************************************************************)
(* autocorrect_match (app.py 105-135).                                     *)
(***************************************************************************)
\* number of consecutive characters of class C starting at 1-based p, <= max
RECURSIVE Run(_, _, _, _)
Run(s, p, C, max) ==
    IF max = 0 \/ p > Len(s) \/ s[p] \notin C THEN 0
    ELSE 1 + Run(s, p + 1, C, max - 1)

\* position after an optional '-' at p
SkipDash(s, p) == IF p <= Len(s) /\ s[p] = "-" THEN p + 1 ELSE p

\* re.match(r'([A-Z]+)[-]?(\d{1,2})[-]?(\d{1,4})', s): the groups, or
\* matched = FALSE.  Greedy with backtracking: the letter run is maximal
\* (a shorter one is followed by a letter), the middle group takes two
\* digits unless the rest then fails to match, in which case it takes one.
parts_match(s) ==
    LET nl == Run(s, 1, Upper, Len(s))
        d1 == SkipDash(s, nl + 1)
        n2 == Run(s, d1, Digit, 2)
        r2 == SkipDash(s, d1 + 2)
        r1 == SkipDash(s, d1 + 1)
        two == n2 = 2 /\ Run(s, r2, Digit, 4) >= 1
        one == n2 >= 1 /\ Run(s, r1, Digit, 4) >= 1
        a  == IF two THEN 2 ELSE 1
        r  == IF two THEN r2 ELSE r1
    IN  IF nl >= 1 /\ (two \/ one)
        THEN [matched |-> TRUE,
              g1 |-> SubSeq(s, 1, nl),
              g2 |-> SubSeq(s, d1, d1 + a - 1),
              g3 |-> SubSeq(s, r, r + Run(s, r, Digit, 4) - 1)]
        ELSE [matched |-> FALSE, g1 |-> <<>>, g2 |-> <<>>, g3 |-> <<>>]

\* the if/elif chain of lines 108-117
prefix_substitution(m) ==
    IF startswith(m, <<"P","0","-">>) THEN <<"P","O">> \o From(m, 2)
    ELSE IF startswith(m, <<"P","Q","-">>) THEN <<"P","O">> \o From(m, 2)
    ELSE IF startswith(m, <<"R","N","W","-">>)
         THEN <<"R","N","W","S">> \o From(m, 3)
    ELSE IF startswith(m, <<"5","P","0","-">>)
         THEN <<"S","P","O">> \o From(m, 3)
    ELSE IF startswith(m, <<"5","6","R","-">>)
         THEN <<"S","G","R">> \o From(m, 3)
    ELSE m

\* the replace chain of lines 126-127
digit_confusion(s) ==
    replace(replace(replace(replace(replace(replace(s,
        "O", "0"), "I", "1"), "S", "5"), "B", "8"), "Z", "2"), "G", "6")

LockedPrefixes == {<<"P","O">>, <<"S","P","O">>, <<"R","N","W","S">>,
                   <<"S","G","R">>, <<"S","S","R">>}

\* the prefix lock of lines 129-130 left out
prefix_lock_none(prefix, second_part) == second_part

\* line 129-130
prefix_lock(prefix, second_part) ==
    IF prefix \in LockedPrefixes THEN <<"2">> \o From(second_part, 1)
    ELSE second_part

\* autocorrect_match without the zero padding of lines 121-122
autocorrect_match_unpadded(m0) ==
    LET m == prefix_substitution(strip_spaces(m0))
        parts == parts_match(m)
        second_part == prefix_lock(parts.g1, digit_confusion(parts.g2))
        last_part == digit_confusion(parts.g3)
    IN  IF parts.matched
        THEN parts.g1 \o <<"-">> \o second_part \o <<"-">> \o last_part
        ELSE m

autocorrect_match(match) ==
    LET m == prefix_substitution(strip_spaces(match))
        parts == parts_match(m)
        second_part == prefix_lock(parts.g1, digit_confusion(zfill(parts.g2, 2)))
        last_part == digit_confusion(zfill(parts.g3, 4))
    IN  IF parts.matched
        THEN parts.g1 \o <<"-">> \o second_part \o <<"-">> \o last_part
        ELSE m


(***************************************************************************)
(* Inputs of the model: basenames of created files and the candidate       *)
(* matches found in their text (re.findall of line 151, upper-cased by     *)
(* line 152).                                                              *)
(***************************************************************************)
pdf == <<".","p","d","f">>

NameA == <<"a">> \o pdf
NameB == <<"b",".","P","D","F">>
Names == {NameA, NameB}

\* name of a document filed in final-output by an earlier run
FiledName == <<"P","O","-","2","0","-","0","0","0","2","_",
               "S","P","O","-","2","1","-","0","0","0","1">> \o pdf

CandP0 == <<"P","0","-","2","0","-","0","0","0","2">>
CandPO == <<"P","O","-","2","0","-","0","0","0","2">>
CandSPO == <<"S","P","O"," ","2","1","-","1">>

TextNone == <<>>
TextTwo == <<CandSPO, CandPO, CandP0>>
Texts == {TextNone, TextTwo}

RetryBudgets == -1..MaxRetries

\* key sets of the OCR_JSON_SETTINGS map (34): one the program accepts and
\* two that name a path ocrmypdf.ocr is already given (84-85)
SettingsKeys == {{"language"}, {"input_file"}, {"language", "output_file"}}

(***************************************************************************)
(* State.                                                                  *)
(***************************************************************************)
VARIABLES
    ON_SUCCESS_DELETE,            \* line 31
    ON_SUCCESS_ARCHIVE,           \* line 32
    RETRIES_LOADING_FILE,         \* line 37
    OCR_JSON_SETTINGS,            \* line 34: the keys of the settings map
    input_dir,      \* watched directory: basename -> file id
    final_output,   \* 'final-output': absent, a directory or a plain file
    error_dir,      \* 'ERROR': whether it exists and its entries
    output_dir,     \* OCR outputs: output path -> [src, mtime]
    archive_dir,    \* ARCHIVE_DIRECTORY: basename -> [id, mtime]
    text,           \* candidate matches in the text of the event's document
    complete,       \* whether its producer has finished writing it
    pc,             \* position of main, then of the observer thread inside
                    \* on_any_event
    path,           \* event.src_path (basename inside the input directory)
    retries,        \* local of wait_for_file_ready
    final_name,     \* local of process_pdf
    joined_name,    \* final_name as it was before collision probing
    events,         \* number of 'created' events delivered so far
    subject,        \* id of the file the current event was raised for
    attempts,       \* pikepdf.open calls made for the current event
    sleeps,         \* time.sleep(POLL_NEW_FILE_SECONDS) calls, current event
    calls,          \* operations performed for the current event
    queue,          \* the observer's event queue: 'created' events not yet
                    \* handed to the handler
    active,         \* invocations of on_any_event in progress
    match,          \* argument of a call of autocorrect_match
    corrected       \* what that call returned

config == <<ON_SUCCESS_DELETE, ON_SUCCESS_ARCHIVE, RETRIES_LOADING_FILE,
            OCR_JSON_SETTINGS>>
world == <<input_dir, final_output, error_dir, output_dir, archive_dir,
           text, complete>>
locals == <<path, retries, final_name, joined_name>>
observed == <<events, subject, attempts, sleeps, calls>>
\* state of the specifications that follow the pipeline's: the observer's
\* dispatch and the calls of the pure functions
side == <<queue, active, match, corrected>>
vars == <<config, world, pc, locals, observed, side>>

Empty == [n \in {} |-> 0]

\* ids of two documents filed by earlier runs of the program: one under the
\* name of its codes, one (without code) under its basename
Earlier == 0
EarlierPlain == -1

\* d without the entry n
Without(d, n) == [m \in DOMAIN d \ {n} |-> d[m]]

\* d with n bound to v, replacing any entry already under n
With(d, n, v) == [m \in DOMAIN d \cup {n} |-> IF m = n THEN v ELSE d[m]]

Init ==
    /\ ON_SUCCESS_DELETE \in BOOLEAN
    /\ ON_SUCCESS_ARCHIVE \in BOOLEAN
    /\ RETRIES_LOADING_FILE \in RetryBudgets
    /\ OCR_JSON_SETTINGS \in SettingsKeys
    /\ input_dir = Empty
    /\ final_output \in
          {[kind |-> "absent", entries |-> Empty, id |-> 0],
           [kind |-> "dir", entries |-> Empty, id |-> 0],
           [kind |-> "dir",
            entries |-> With(With(Empty, FiledName, Earlier),
                             NameA, EarlierPlain),
            id |-> 0]}
    /\ error_dir = [exists |-> FALSE, entries |-> Empty]
    /\ output_dir = Empty
    /\ archive_dir = Empty
    /\ text = <<>>
    /\ complete = FALSE
    /\ pc = "main"
    /\ path = <<>>
    /\ retries = 0
    /\ final_name = <<>>
    /\ joined_name = <<>>
    /\ events = 0
    /\ subject = 0
    /\ attempts = 0
    /\ sleeps = 0
    /\ calls = {}
    /\ queue = <<>>
    /\ active = {}
    /\ match = <<>>
    /\ corrected = <<>>

(***************************************************************************)
(* main (183-231): validation of the settings, then the observer.          *)
(***************************************************************************)
\* the condition of line 214, on the keys of the settings map
reserved_input_only(settings) == "input_file" \in settings

reserved(settings) == "input_file" \in settings \/ "output_file" \in settings

\* lines 214-216: log.error and sys.exit(1); the handler, the observer and
\* its schedule (218-224) are never reached
MainExit ==
    /\ pc = "main"
    /\ reserved(OCR_JSON_SETTINGS)
    /\ pc' = "exit_1"
    /\ UNCHANGED <<config, side, world, locals, observed>>

\* lines 218-224: the handler is scheduled on one observer and the observer
\* thread is started; it waits for events (pc = "idle")
MainStart ==
    /\ pc = "main"
    /\ ~ reserved(OCR_JSON_SETTINGS)
    /\ pc' = "idle"
    /\ UNCHANGED <<config, side, world, locals, observed>>

(***************************************************************************)
(* The environment: the upstream producer and the watcher's notification.  *)
(***************************************************************************)
\* get_output_dir (43-52): the output path of an input basename, relative
\* to the directory the configuration selects (OUTPUT_DIRECTORY or its
\* year/month subdirectory)
get_output_dir(basename) == basename

\* A producer starts writing a new document n with text t and the watcher
\* delivers its 'created' event: on_any_event (138-140) enters
\* execute_ocrmypdf, which sets up wait_for_file_ready's retry counter (55).
Created(n, t) ==
    /\ pc = "idle"
    /\ events < MaxFiles
    /\ n \notin DOMAIN input_dir
    /\ events' = events + 1
    /\ subject' = events + 1
    /\ input_dir' = With(input_dir, n, events + 1)
    /\ text' = t
    /\ complete' = FALSE
    /\ path' = n
    /\ retries' = RETRIES_LOADING_FILE
    /\ attempts' = 0
    /\ sleeps' = 0
    /\ calls' = {}
    /\ final_name' = <<>>
    /\ joined_name' = <<>>
    /\ pc' = "wait"
    /\ UNCHANGED <<config, side, final_output, error_dir, output_dir, archive_dir>>

\* the producer finishes writing the document while the pipeline waits for
\* it (the sleeps of lines 62 and 147)
FinishWriting ==
    /\ pc \in {"wait", "extract"}
    /\ path \in DOMAIN input_dir
    /\ ~ complete
    /\ complete' = TRUE
    /\ UNCHANGED <<config, side, input_dir, final_output, error_dir, output_dir,
                   archive_dir, text, pc, locals, observed>>

\* the producer removes the file again while the pipeline waits for it
Vanish ==
    /\ pc \in {"wait", "stat"}
    /\ path \in DOMAIN input_dir
    /\ input_dir' = Without(input_dir, path)
    /\ UNCHANGED <<config, side, final_output, error_dir, output_dir, archive_dir,
                   text, complete, pc, locals, observed>>

(***************************************************************************)
(* wait_for_file_ready (54-67).                                            *)
(***************************************************************************)
\* what pikepdf.open(file_path) does, apart from errors of the OS
pikepdf_open(p) ==
    IF p \notin DOMAIN input_dir THEN "FileNotFoundError"
    ELSE IF complete THEN "ok"
    ELSE "PdfError"

\* the except clause of line 59
caught_by_gate(e) == e \in {"FileNotFoundError", "PdfError"}

\* line 58 succeeds: pdf.close(); return True (64-66)
OpenOk ==
    /\ pc = "wait"
    /\ retries # 0
    /\ pikepdf_open(path) = "ok"
    /\ attempts' = attempts + 1
    /\ calls' = calls \cup {"ready"}
    /\ pc' = "stat"
    /\ UNCHANGED <<config, side, world, locals, events, subject, sleeps>>

\* OpenCaught without the sleep of line 62
OpenCaughtNoSleep ==
    /\ pc = "wait"
    /\ retries # 0
    /\ retries - 1 >= 0 - MaxSpin
    /\ caught_by_gate(pikepdf_open(path))
    /\ attempts' = attempts + 1
    /\ retries' = retries - 1
    /\ UNCHANGED <<config, side, world, pc, path, final_name, joined_name,
                   events, subject, sleeps, calls>>

\* line 58 raises an exception of line 59: sleep and decrement (60-63)
OpenCaught ==
    /\ pc = "wait"
    /\ retries # 0
    /\ retries - 1 >= 0 - MaxSpin
    /\ caught_by_gate(pikepdf_open(path))
    /\ attempts' = attempts + 1
    /\ sleeps' = sleeps + 1
    /\ retries' = retries - 1
    /\ UNCHANGED <<config, side, world, pc, path, final_name, joined_name,
                   events, subject, calls>>

\* line 58 raises any other exception (PermissionError, IsADirectoryError,
\* ...): nothing catches it in wait_for_file_ready, execute_ocrmypdf or
\* on_any_event
OpenUncaught ==
    /\ pc = "wait"
    /\ retries # 0
    /\ path \in DOMAIN input_dir
    /\ attempts' = attempts + 1
    /\ calls' = calls \cup {"gate_raised"}
    /\ pc' = "raised"
    /\ UNCHANGED <<config, side, world, locals, events, subject, sleeps>>

\* the while loop ends: return False (67); execute_ocrmypdf logs and returns
\* (75-77); on_any_event goes on to line 141
GiveUp ==
    /\ pc = "wait"
    /\ retries = 0
    /\ calls' = calls \cup {"not_ready"}
    /\ pc' = "classify"
    /\ UNCHANGED <<config, side, world, locals, events, subject, attempts, sleeps>>

(***************************************************************************)
(* execute_ocrmypdf after the gate (78-103).                               *)
(***************************************************************************)
\* file_path.stat() (80-81)
Stat ==
    /\ pc = "stat"
    /\ pc' = IF path \in DOMAIN input_dir THEN "ocr" ELSE "raised"
    /\ UNCHANGED <<config, side, world, locals, observed>>

\* ocrmypdf.ocr returns 0 (83-89): the output document now exists
OcrSuccess ==
    /\ pc = "ocr"
    /\ output_dir' = With(output_dir, get_output_dir(path),
                          [src |-> input_dir[path], mtime |-> "now"])
    /\ calls' = calls \cup {"ocr", "ocr_ok"}
    /\ pc' = "post"
    /\ UNCHANGED <<config, side, input_dir, final_output, error_dir, archive_dir,
                   text, complete, locals, events, subject, attempts, sleeps>>

\* ocrmypdf.ocr returns a non-zero code (102-103)
OcrNonZero ==
    /\ pc = "ocr"
    /\ calls' = calls \cup {"ocr", "ocr_failed"}
    /\ pc' = "classify"
    /\ UNCHANGED <<config, side, world, locals, events, subject, attempts, sleeps>>

\* ocrmypdf.ocr raises
OcrRaise ==
    /\ pc = "ocr"
    /\ calls' = calls \cup {"ocr"}
    /\ pc' = "raised"
    /\ UNCHANGED <<config, side, world, locals, events, subject, attempts, sleeps>>

\* disposition with the elif branch of line 95 lost
disposition_no_archive(delete, archive) ==
    IF delete THEN "delete" ELSE "leave"

\* the if/elif/else of lines 92-101
disposition(delete, archive) ==
    IF delete THEN "delete"
    ELSE IF archive THEN "archive"
    ELSE "leave"

\* os.utime (90), then the disposition of the original (92-101)
Post ==
    /\ pc = "post"
    /\ LET d == disposition(ON_SUCCESS_DELETE, ON_SUCCESS_ARCHIVE)
           out == get_output_dir(path)
       IN  /\ output_dir' = With(output_dir, out,
                                 [output_dir[out] EXCEPT !.mtime = "orig"])
           /\ input_dir' = IF d = "leave" THEN input_dir
                           ELSE Without(input_dir, path)
           /\ archive_dir' =
                 IF d = "archive"
                 THEN With(archive_dir, path,
                           [id |-> input_dir[path], mtime |-> "orig"])
                 ELSE archive_dir
           /\ calls' = calls \cup {d}
    /\ pc' = "classify"
    /\ UNCHANGED <<config, side, final_output, error_dir, text, complete, locals,
                   events, subject, attempts, sleeps>>

\* os.utime, file_path.unlink or shutil.move of lines 90-99 raises
PostRaise(op) ==
    /\ pc = "post"
    /\ op \in {"utime"} \cup
              (IF disposition(ON_SUCCESS_DELETE, ON_SUCCESS_ARCHIVE) = "leave"
               THEN {} ELSE {"disposition"})
    /\ output_dir' =
          IF op = "utime" THEN output_dir
          ELSE With(output_dir, get_output_dir(path),
                    [output_dir[get_output_dir(path)] EXCEPT !.mtime = "orig"])
    /\ pc' = "raised"
    /\ UNCHANGED <<config, side, input_dir, final_output, error_dir, archive_dir,
                   text, complete, locals, observed>>

(***************************************************************************)
(* process_pdf (143-180).                                                  *)
(***************************************************************************)
max_length == 150 - 4

\* normalized_matches without lines 156-157: the corrected matches in the
\* order of the text, duplicates kept
normalized_matches_as_found(t) ==
    [i \in DOMAIN t |-> autocorrect_match(t[i])]

\* lines 151-157 applied to the candidates of a text: autocorrect each,
\* deduplicate, sort
normalized_matches(t) ==
    sorted({autocorrect_match(t[i]) : i \in DOMAIN t})

\* lines 158-161
joined_final_name(matches) ==
    LET name == join(<<"_">>, matches) \o pdf
    IN  IF Len(name) > max_length THEN Take(name, max_length) \o pdf
        ELSE name

\* os.path.exists(os.path.join('final-output', name))
exists_in_final(name) ==
    final_output.kind = "dir" /\ name \in DOMAIN final_output.entries

\* final_name[:-4] + f'({num}).pdf'
suffixed(name, num) ==
    DropLast(name, 4) \o <<"(">> \o str(num) \o <<")">> \o pdf

\* probe without the loop: the first suffix is taken unchecked
probe_once(name, num) == num

\* the while loop of lines 165-166, started with num
RECURSIVE probe(_, _)
probe(name, num) ==
    IF exists_in_final(suffixed(name, num)) THEN probe(name, num + 1)
    ELSE num

\* lines 163-167
resolve_collision(name) ==
    IF exists_in_final(name) THEN suffixed(name, probe(name, 1))
    ELSE name

\* line 141 calls process_pdf; line 144 lets only '.pdf' paths in, which
\* then sleep (147)
ProcessPdf ==
    /\ pc = "classify"
    /\ calls' = IF endswith(path, pdf) THEN calls \cup {"process_pdf"}
                 ELSE calls
    /\ pc' = IF endswith(path, pdf) THEN "extract" ELSE "idle"
    /\ UNCHANGED <<config, side, world, locals, events, subject, attempts, sleeps>>

\* extract_text (150) raises: the file is missing or is not a document the
\* extractor can read
ExtractRaise ==
    /\ pc = "extract"
    /\ calls' = calls \cup {"extract_raised"}
    /\ pc' = "except"
    /\ UNCHANGED <<config, side, world, locals, events, subject, attempts, sleeps>>

\* extract_text returns a text with candidates (150-167)
ExtractCodes ==
    /\ pc = "extract"
    /\ path \in DOMAIN input_dir
    /\ complete
    /\ LET matches == normalized_matches(text)
       IN  /\ matches # <<>>
           /\ joined_name' = joined_final_name(matches)
           /\ final_name' = resolve_collision(joined_final_name(matches))
    /\ calls' = calls \cup {"codes"}
    /\ pc' = "rename"
    /\ UNCHANGED <<config, side, world, path, retries, events, subject, attempts,
                   sleeps>>

\* extract_text returns a text without candidates (150-154, 171)
ExtractNoCode ==
    /\ pc = "extract"
    /\ path \in DOMAIN input_dir
    /\ complete
    /\ normalized_matches(text) = <<>>
    /\ calls' = calls \cup {"no_code"}
    /\ pc' = "move_plain"
    /\ UNCHANGED <<config, side, world, locals, events, subject, attempts, sleeps>>

\* os.rename(path, dirname(path)/final_name) (168): replaces whatever is
\* under final_name in the input directory
Rename ==
    /\ pc = "rename"
    /\ path \in DOMAIN input_dir
    /\ input_dir' = With(Without(input_dir, path), final_name, input_dir[path])
    /\ calls' = calls \cup {"rename"}
    /\ pc' = "move"
    /\ UNCHANGED <<config, side, final_output, error_dir, output_dir, archive_dir,
                   text, complete, locals, events, subject, attempts, sleeps>>

\* os.rename of line 168 raises
RenameRaise ==
    /\ pc = "rename"
    /\ calls' = calls \cup {"rename_raised"}
    /\ pc' = "except"
    /\ UNCHANGED <<config, side, world, locals, events, subject, attempts, sleeps>>

\* shutil.move(src, 'final-output') with src a file: into the directory
\* under src's basename when 'final-output' is a directory (refusing an
\* existing entry), else os.rename(src, 'final-output')
shutil_move_into_final(fo, name, id) ==
    IF fo.kind = "dir"
    THEN [fo EXCEPT !.entries = With(fo.entries, name, id)]
    ELSE [kind |-> "file", entries |-> Empty, id |-> id]

\* line 169-170
Move ==
    /\ pc = "move"
    /\ final_name \in DOMAIN input_dir
    /\ ~ exists_in_final(final_name)
    /\ final_output' = shutil_move_into_final(final_output, final_name,
                                              input_dir[final_name])
    /\ input_dir' = Without(input_dir, final_name)
    /\ calls' = calls \cup {"move"}
    /\ pc' = "idle"
    /\ UNCHANGED <<config, side, error_dir, output_dir, archive_dir, text, complete,
                   locals, events, subject, attempts, sleeps>>

\* shutil.move of line 169 raises
MoveRaise ==
    /\ pc = "move"
    /\ calls' = calls \cup {"move_raised"}
    /\ pc' = "except"
    /\ UNCHANGED <<config, side, world, locals, events, subject, attempts, sleeps>>

\* shutil.move(path, 'final-output/<basename>') (172-173): os.rename onto
\* the destination, replacing a file already there
MovePlain ==
    /\ pc = "move_plain"
    /\ path \in DOMAIN input_dir
    /\ final_output.kind = "dir"
    /\ final_output' = [final_output EXCEPT
                          !.entries = With(@, path, input_dir[path])]
    /\ input_dir' = Without(input_dir, path)
    /\ calls' = calls \cup {"move_plain"}
    /\ pc' = "idle"
    /\ UNCHANGED <<config, side, error_dir, output_dir, archive_dir, text, complete,
                   locals, events, subject, attempts, sleeps>>

\* shutil.move of line 172 raises ('final-output' is not a directory, or an
\* error of the OS)
MovePlainRaise ==
    /\ pc = "move_plain"
    /\ calls' = calls \cup {"move_raised"}
    /\ pc' = "except"
    /\ UNCHANGED <<config, side, world, locals, events, subject, attempts, sleeps>>

\* the except clause (174-180) with the path still present: os.mkdir('ERROR')
\* when needed, then shutil.move(path, 'ERROR/<basename>'), replacing a file
\* already there
Quarantine ==
    /\ pc = "except"
    /\ path \in DOMAIN input_dir
    /\ error_dir' = [exists |-> TRUE,
                     entries |-> With(error_dir.entries, path, input_dir[path])]
    /\ input_dir' = Without(input_dir, path)
    /\ calls' = calls \cup {"quarantine"}
    /\ pc' = "idle"
    /\ UNCHANGED <<config, side, final_output, output_dir, archive_dir, text,
                   complete, locals, events, subject, attempts, sleeps>>

\* the except clause without the test of line 176: the move of a missing
\* path raises out of the handler
QuarantineSkipRaises ==
    /\ pc = "except"
    /\ path \notin DOMAIN input_dir
    /\ pc' = "raised"
    /\ UNCHANGED <<config, side, world, locals, observed>>

\* the except clause with the path gone (176 is false): nothing is moved
QuarantineSkip ==
    /\ pc = "except"
    /\ path \notin DOMAIN input_dir
    /\ pc' = "idle"
    /\ UNCHANGED <<config, side, world, locals, observed>>

\* os.mkdir (178) or shutil.move (179) raises inside the except clause
QuarantineRaise(op) ==
    /\ pc = "except"
    /\ path \in DOMAIN input_dir
    /\ op \in (IF error_dir.exists THEN {} ELSE {"mkdir"}) \cup {"move"}
    /\ error_dir' = IF op = "move" THEN [error_dir EXCEPT !.exists = TRUE]
                    ELSE error_dir
    /\ calls' = calls \cup {"quarantine_raised"}
    /\ pc' = "raised"
    /\ UNCHANGED <<config, side, input_dir, final_output, output_dir, archive_dir,
                   text, complete, locals, events, subject, attempts, sleeps>>

(***************************************************************************)
(* Specification.                                                          *)
(***************************************************************************)
Next ==
    \/ MainExit
    \/ MainStart
    \/ \E n \in Names, t \in Texts : Created(n, t)
    \/ FinishWriting
    \/ Vanish
    \/ OpenOk
    \/ OpenCaught
    \/ OpenUncaught
    \/ GiveUp
    \/ Stat
    \/ OcrSuccess
    \/ OcrNonZero
    \/ OcrRaise
    \/ Post
    \/ \E op \in {"utime", "disposition"} : PostRaise(op)
    \/ ProcessPdf
    \/ ExtractRaise
    \/ ExtractCodes
    \/ ExtractNoCode
    \/ Rename
    \/ RenameRaise
    \/ Move
    \/ MoveRaise
    \/ MovePlain
    \/ MovePlainRaise
    \/ Quarantine
    \/ QuarantineSkip
    \/ \E op \in {"mkdir", "move"} : QuarantineRaise(op)

Spec == Init /\ [][Next]_vars

(***************************************************************************)
(* Properties.                                                             *)
(***************************************************************************)
\* where documents are
InInput == Range(input_dir)
InFinal == IF final_output.kind = "dir" THEN Range(final_output.entries)
           ELSE IF final_output.kind = "file" THEN {final_output.id}
           ELSE {}
InError == Range(error_dir.entries)
InArchive == {archive_dir[n].id : n \in DOMAIN archive_dir}
Stored == InInput \cup InFinal \cup InError \cup InArchive

\* the event's document is still where the event found it
Untouched == path \in DOMAIN input_dir /\ input_dir[path] = subject

\* the event's document was renamed, filed or quarantined
Relocated ==
    \/ subject \in InFinal \cup InError
    \/ \E n \in DOMAIN input_dir : n # path /\ input_dir[n] = subject

FinalNames == IF final_output.kind = "dir" THEN DOMAIN final_output.entries
              ELSE {}

\* the configuration of a regular deployment: a positive retry budget and
\* a final-output directory that exists
Deployed == RETRIES_LOADING_FILE >= 1 /\ final_output.kind = "dir"

\* the event's document passed the readiness gate and its OCR succeeded
Regular == Deployed /\ "ocr_ok" \in calls

\* C1: when the readiness gate returns not-ready (positive retry budget,
\* final-output present), the file is abandoned: the OCR engine is not
\* invoked, process_pdf does not run, and the file is neither renamed, moved
\* nor quarantined.
C1_NotReadyAbandons ==
    (Deployed /\ "not_ready" \in calls) =>
        /\ "ocr" \notin calls
        /\ "process_pdf" \notin calls
        /\ ~ Relocated

\* C2: no relocation step (the rename, the move into final-output, the
\* pass-through move, the quarantine move) destroys a document that is
\* stored in the input directory, final-output, ERROR or the archive
\* (stated for documents that passed the readiness gate and the OCR run).
C2_NeverOverwritten ==
    [][((Regular /\ pc \in {"rename", "move", "move_plain", "except"})
          => Stored \subseteq (Stored'))]_vars

\* C3: when the classification stage of a document that passed the
\* readiness gate and the OCR run ends after an exception and the document
\* was still in the input directory when the handler ran, the document is
\* at ERROR/<original basename> and no longer in the input directory under
\* any name.
C3_ExceptionQuarantines ==
    [][(Regular /\ pc = "except" /\ pc' = "idle" /\ subject \in InInput)
          => /\ path \in DOMAIN error_dir'.entries
             /\ error_dir'.entries[path] = subject
             /\ subject \notin (InInput')]_vars

\* C4: a non-zero OCR result is terminal for the file (positive retry
\* budget, final-output present): no disposition is applied, process_pdf
\* does not run on it and the original stays at its path.
C4_OcrFailureTerminal ==
    (Deployed /\ "ocr_failed" \in calls) =>
        /\ calls \cap {"delete", "archive"} = {}
        /\ "process_pdf" \notin calls
        /\ Untouched

\* what the aggregation of lines 155-158 must produce for TextTwo
StemTwo == <<"P","O","-","2","0","-","0","0","0","2">>
           \o <<"_","S","P","O","-","2","1","-","0","0","0","1">>

\* stem(n).pdf
Numbered(stem, n) == stem \o <<"(", DigitChar(n), ")">> \o pdf

\* C5: when the text has at least one code the target name is the sorted,
\* deduplicated, '_'-joined normalized codes followed by '.pdf' (names short
\* enough to need no truncation); when it has none the target is the
\* original basename and a completed pass-through move leaves the document at
\* final-output/<original basename>.
C5_TargetName ==
    /\ "codes" \in calls =>
          /\ text # <<>>
          /\ joined_name = StemTwo \o pdf
    /\ "no_code" \in calls => text = <<>>
    /\ "move_plain" \in calls =>
          /\ final_output.kind = "dir"
          /\ path \in DOMAIN final_output.entries
          /\ final_output.entries[path] = subject

C5_Witness ==
    /\ text = TextTwo
    /\ "move" \in calls
    /\ final_output.kind = "dir"
    /\ StemTwo \o pdf \in DOMAIN final_output.entries
    /\ final_output.entries[StemTwo \o pdf] = subject

\* C6: the name chosen by collision probing is X.pdf when final-output/X.pdf
\* does not exist, else X(n).pdf for the smallest n >= 1 with X(n).pdf free;
\* a completed move into the final-output directory stores the document
\* under that name, and the names X.pdf, X(1).pdf, ... present in
\* final-output have no gap.
C6_CollisionProbing ==
    /\ pc \in {"rename", "move"} =>
          IF StemTwo \o pdf \notin FinalNames
          THEN final_name = StemTwo \o pdf
          ELSE \E n \in 1..9 :
                  /\ final_name = Numbered(StemTwo, n)
                  /\ final_name \notin FinalNames
                  /\ \A m \in 1..(n - 1) : Numbered(StemTwo, m) \in FinalNames
    /\ ("move" \in calls /\ final_output.kind = "dir") =>
          /\ final_name \in FinalNames
          /\ final_output.entries[final_name] = subject
    /\ \A n \in 1..9 :
          Numbered(StemTwo, n) \in FinalNames =>
              /\ StemTwo \o pdf \in FinalNames
              /\ \A m \in 1..(n - 1) : Numbered(StemTwo, m) \in FinalNames

C6_Witness ==
    /\ "move" \in calls
    /\ final_name = Numbered(StemTwo, 2)
    /\ {StemTwo \o pdf, Numbered(StemTwo, 1), Numbered(StemTwo, 2)}
          \subseteq FinalNames
    /\ final_output.entries[Numbered(StemTwo, 2)] = subject

\* C7: with a retry budget R >= 1, when wait_for_file_ready returns true it
\* has made k <= R open attempts and slept exactly k - 1 times, and it makes
\* no further attempt and sleeps no more for that event.
C7_ReadyAfterK ==
    /\ []( ("ready" \in calls /\ RETRIES_LOADING_FILE >= 1) =>
              /\ attempts >= 1
              /\ attempts <= RETRIES_LOADING_FILE
              /\ sleeps = attempts - 1 )
    /\ [][("ready" \in calls /\ events' = events) =>
              (attempts' = attempts /\ sleeps' = sleeps)]_vars

C7_Witness ==
    /\ "ready" \in calls
    /\ RETRIES_LOADING_FILE = MaxRetries
    /\ attempts = MaxRetries
    /\ sleeps = MaxRetries - 1

\* C8: for a file that is never openable within the retry budget,
\* wait_for_file_ready returns not-ready after exactly budget-many attempts
\* and never raises, whatever the reason the open attempt fails.
C8_GateNeverRaises ==
    RETRIES_LOADING_FILE >= 1 =>
        /\ "gate_raised" \notin calls
        /\ "not_ready" \in calls => attempts = RETRIES_LOADING_FILE

\* C9: once the dispositions of a successful OCR run are done, exactly one
\* of delete, archive (in the archive directory, timestamps restored) and
\* leave-in-place has been applied to the original, and leave-in-place is
\* the one applied exactly when neither flag is enabled.
Deleted == subject \notin Stored
Archived ==
    /\ path \in DOMAIN archive_dir
    /\ archive_dir[path] = [id |-> subject, mtime |-> "orig"]
    /\ subject \notin InInput
Left == Untouched /\ subject \notin InArchive

C9_OneDisposition ==
    (pc = "classify" /\ "ocr_ok" \in calls) =>
        /\ Deleted \/ Archived \/ Left
        /\ ~ (Deleted /\ Archived)
        /\ ~ (Deleted /\ Left)
        /\ ~ (Archived /\ Left)
        /\ Left <=> (~ ON_SUCCESS_DELETE /\ ~ ON_SUCCESS_ARCHIVE)
        /\ output_dir[get_output_dir(path)] =
              [src |-> subject, mtime |-> "orig"]

C9_Witness ==
    /\ pc = "classify"
    /\ "ocr_ok" \in calls
    /\ ON_SUCCESS_ARCHIVE
    /\ ~ ON_SUCCESS_DELETE
    /\ Archived

\* C10: no failure while handling a file (here: any failure other than an
\* error raised by the readiness gate, with a positive retry budget and
\* final-output present) propagates out of on_any_event, so the watch loop
\* goes on to process later events.
C10_NoEscape == (Deployed /\ "gate_raised" \notin calls) => pc # "raised"

\* C11: a settings map holding the key input_file or output_file makes
\* startup end with exit code 1 before the observer is scheduled and
\* started, so that no event is ever processed and nothing on disk changes;
\* a map holding neither key never ends that way, and the only step startup
\* takes with it is the start of the observer.
C11_ReservedKeysFatal ==
    /\ []((OCR_JSON_SETTINGS \cap {"input_file", "output_file"} # {})
            => (/\ pc \in {"main", "exit_1"}
                /\ events = 0
                /\ calls = {}
                /\ input_dir = Empty
                /\ output_dir = Empty))
    /\ []((OCR_JSON_SETTINGS \cap {"input_file", "output_file"} = {})
            => pc # "exit_1")
    /\ [][((pc = "main" /\ pc' # "main")
            => pc' = (IF OCR_JSON_SETTINGS \cap {"input_file", "output_file"}
                         = {}
                      THEN "idle" ELSE "exit_1"))]_vars

C11_Witness == pc = "exit_1" /\ "output_file" \in OCR_JSON_SETTINGS

(***************************************************************************)
(* The observer's dispatch (main, 218-224): 'created' events wait in the   *)
(* observer's queue and its one thread hands them to on_any_event.  The    *)
(* documents of this specification arrive complete and their OCR succeeds, *)
(* with the original left in place; the failures of the ingest stage are   *)
(* those of Spec.                                                          *)
(***************************************************************************)
NameC == <<"c">> \o pdf
WatchNames == {NameA, NameC}

WatchInit ==
    /\ ON_SUCCESS_DELETE = FALSE
    /\ ON_SUCCESS_ARCHIVE = FALSE
    /\ RETRIES_LOADING_FILE = 1
    /\ OCR_JSON_SETTINGS = {"language"}
    /\ input_dir = Empty
    /\ final_output \in
          {[kind |-> "dir", entries |-> Empty, id |-> 0],
           [kind |-> "dir", entries |-> With(Empty, FiledName, Earlier),
            id |-> 0]}
    /\ error_dir = [exists |-> FALSE, entries |-> Empty]
    /\ output_dir = Empty
    /\ archive_dir = Empty
    /\ text = <<>>
    /\ complete = TRUE
    /\ pc = "idle"
    /\ path = <<>>
    /\ retries = 0
    /\ final_name = <<>>
    /\ joined_name = <<>>
    /\ events = 0
    /\ subject = 0
    /\ attempts = 0
    /\ sleeps = 0
    /\ calls = {}
    /\ queue = <<>>
    /\ active = {}
    /\ match = <<>>
    /\ corrected = <<>>

\* a producer writes the document n with text t into the watched directory
\* and the observer queues its 'created' event
Arrive(n, t) ==
    /\ events < MaxFiles
    /\ n \notin DOMAIN input_dir
    /\ events' = events + 1
    /\ input_dir' = With(input_dir, n, events + 1)
    /\ queue' = Append(queue, [path |-> n, text |-> t])
    /\ UNCHANGED <<config, final_output, error_dir, output_dir, archive_dir,
                   text, complete, pc, locals, subject, attempts, sleeps,
                   calls, active, match, corrected>>

\* whether the observer hands the event for path p to the handler while the
\* invocations of inflight are in progress: an event per path at a time
dispatch_ready_per_path(inflight, p) == \A r \in inflight : r.path # p

\* a thread for every event
dispatch_ready_always(inflight, p) == TRUE

\* the one observer thread started at line 224 runs the handler scheduled
\* at 223 itself: it takes the next event when the handler has returned
dispatch_ready(inflight, p) == inflight = {}

\* the observer takes the oldest event and calls on_any_event (138), whose
\* execute_ocrmypdf (140) writes the OCR output and restores its times
Dispatch ==
    /\ queue # <<>>
    /\ dispatch_ready(active, Head(queue).path)
    /\ Head(queue).path \in DOMAIN input_dir
    /\ queue' = Tail(queue)
    /\ output_dir' = With(output_dir, get_output_dir(Head(queue).path),
                          [src |-> input_dir[Head(queue).path],
                           mtime |-> "orig"])
    /\ active' = active \cup {[path |-> Head(queue).path,
                               text |-> Head(queue).text,
                               pc |-> "extract",
                               final_name |-> <<>>]}
    /\ UNCHANGED <<config, input_dir, final_output, error_dir, archive_dir,
                   text, complete, pc, locals, observed, match, corrected>>

\* the invocation r goes on as the record next
Continue(r, next) == active' = (active \ {r}) \cup {next}

\* on_any_event returns
Return(r) == active' = active \ {r}

\* process_pdf (141) up to line 167: the extension test, the text, the
\* codes and the free name
WExtract(r) ==
    /\ r.pc = "extract"
    /\ IF ~ endswith(r.path, pdf) THEN Return(r)
       ELSE IF r.path \notin DOMAIN input_dir
       THEN Continue(r, [r EXCEPT !.pc = "except"])
       ELSE IF normalized_matches(r.text) = <<>>
       THEN Continue(r, [r EXCEPT !.pc = "move_plain"])
       ELSE Continue(r, [r EXCEPT
                !.pc = "rename",
                !.final_name = resolve_collision(
                    joined_final_name(normalized_matches(r.text)))])
    /\ UNCHANGED <<config, world, pc, locals, observed, queue, match,
                   corrected>>

\* extract_text (150) raises on a document it cannot read
WExtractRaise(r) ==
    /\ r.pc = "extract"
    /\ endswith(r.path, pdf)
    /\ Continue(r, [r EXCEPT !.pc = "except"])
    /\ UNCHANGED <<config, world, pc, locals, observed, queue, match,
                   corrected>>

\* os.rename (168): replaces a file already under the new name; raises when
\* the path is gone
WRename(r) ==
    /\ r.pc = "rename"
    /\ IF r.path \in DOMAIN input_dir
       THEN /\ input_dir' = With(Without(input_dir, r.path), r.final_name,
                                 input_dir[r.path])
            /\ Continue(r, [r EXCEPT !.pc = "move"])
       ELSE /\ input_dir' = input_dir
            /\ Continue(r, [r EXCEPT !.pc = "except"])
    /\ UNCHANGED <<config, final_output, error_dir, output_dir, archive_dir,
                   text, complete, pc, locals, observed, queue, match,
                   corrected>>

\* shutil.move (169): raises when the source is gone or the name is taken
\* in final-output
WMove(r) ==
    /\ r.pc = "move"
    /\ IF r.final_name \in DOMAIN input_dir /\ ~ exists_in_final(r.final_name)
       THEN /\ final_output' =
                   shutil_move_into_final(final_output, r.final_name,
                                          input_dir[r.final_name])
            /\ input_dir' = Without(input_dir, r.final_name)
            /\ Return(r)
       ELSE /\ UNCHANGED <<final_output, input_dir>>
            /\ Continue(r, [r EXCEPT !.pc = "except"])
    /\ UNCHANGED <<config, error_dir, output_dir, archive_dir, text,
                   complete, pc, locals, observed, queue, match, corrected>>

\* shutil.move (172) to final-output/basename: replaces a file of that name
WMovePlain(r) ==
    /\ r.pc = "move_plain"
    /\ IF r.path \in DOMAIN input_dir /\ final_output.kind = "dir"
       THEN /\ final_output' =
                   [final_output EXCEPT
                       !.entries = With(final_output.entries, r.path,
                                        input_dir[r.path])]
            /\ input_dir' = Without(input_dir, r.path)
            /\ Return(r)
       ELSE /\ UNCHANGED <<final_output, input_dir>>
            /\ Continue(r, [r EXCEPT !.pc = "except"])
    /\ UNCHANGED <<config, error_dir, output_dir, archive_dir, text,
                   complete, pc, locals, observed, queue, match, corrected>>

\* the except clause (174-180)
WExcept(r) ==
    /\ r.pc = "except"
    /\ IF r.path \in DOMAIN input_dir
       THEN /\ error_dir' = [exists |-> TRUE,
                             entries |-> With(error_dir.entries, r.path,
                                              input_dir[r.path])]
            /\ input_dir' = Without(input_dir, r.path)
       ELSE UNCHANGED <<error_dir, input_dir>>
    /\ Return(r)
    /\ UNCHANGED <<config, final_output, output_dir, archive_dir, text,
                   complete, pc, locals, observed, queue, match, corrected>>

WatchNext ==
    \/ \E n \in WatchNames, t \in Texts : Arrive(n, t)
    \/ Dispatch
    \/ \E r \in active : WExtract(r)
    \/ \E r \in active : WExtractRaise(r)
    \/ \E r \in active : WRename(r)
    \/ \E r \in active : WMove(r)
    \/ \E r \in active : WMovePlain(r)
    \/ \E r \in active : WExcept(r)

SpecWatch == WatchInit /\ [][WatchNext]_vars

\* documents filed in final-output under the name of their codes
FiledByCode == {final_output.entries[n] : n \in FinalNames \ WatchNames}

Tokens == {<<"P","0">>, <<"P","O">>, <<"S","P","O">>, <<"R","N","W","S">>,
           <<"S","G","R">>, <<"S","S","R">>}

\* the digits candidates are written with
CandDigits == {"0", "7"}

\* strings of lo to hi digits
DigitStrings(lo, hi) == UNION {[1..k -> CandDigits] : k \in lo..hi}

\* the upper-cased strings matching
\* (?:P0|PO|SPO|RNWS|SGR|SSR) ?\d?-?\d{1,2}-\d{1,4}
Candidates ==
    {tok \o sp \o d \o dash \o a \o <<"-">> \o b :
        tok \in Tokens, sp \in {<<>>, <<" ">>},
        d \in {<<>>} \cup DigitStrings(1, 1), dash \in {<<>>, <<"-">>},
        a \in DigitStrings(1, 2), b \in DigitStrings(1, 4)}

\* the pipeline at rest: no file, no event
Quiet ==
    /\ ON_SUCCESS_DELETE = FALSE
    /\ ON_SUCCESS_ARCHIVE = FALSE
    /\ RETRIES_LOADING_FILE = 1
    /\ OCR_JSON_SETTINGS = {"language"}
    /\ input_dir = Empty
    /\ final_output = [kind |-> "dir", entries |-> Empty, id |-> 0]
    /\ error_dir = [exists |-> FALSE, entries |-> Empty]
    /\ output_dir = Empty
    /\ archive_dir = Empty
    /\ complete = TRUE
    /\ path = <<>>
    /\ retries = 0
    /\ joined_name = <<>>
    /\ events = 0
    /\ subject = 0
    /\ attempts = 0
    /\ sleeps = 0
    /\ calls = {}
    /\ queue = <<>>
    /\ active = {}

AutoInit ==
    /\ Quiet
    /\ text = <<>>
    /\ final_name = <<>>
    /\ match \in Candidates
    /\ corrected = <<>>
    /\ pc = "autocorrect"

\* line 154: the call for one candidate
Autocorrect ==
    /\ pc = "autocorrect"
    /\ corrected' = autocorrect_match(match)
    /\ pc' = "returned"
    /\ UNCHANGED <<config, world, locals, observed, queue, active, match>>

AutoNext == Autocorrect

SpecAuto == AutoInit /\ [][AutoNext]_vars

\* s is letters, '-', two digits, '-', four digits
Canonical(s) ==
    \E k \in 1..Len(s) :
        /\ Len(s) = k + 8
        /\ \A i \in 1..k : s[i] \in Upper
        /\ s[k + 1] = "-" /\ s[k + 4] = "-"
        /\ \A i \in {k + 2, k + 3, k + 5, k + 6, k + 7, k + 8} : s[i] \in Digit

\* m without its spaces and with a leading P0- or PQ- turned into PO-,
\* RNW- into RNWS-, 5P0- into SPO- and 56R- into SGR-
Stripped(m) == prefix_substitution(strip_spaces(m))

\* C14: for every upper-cased string matching the candidate pattern,
\* autocorrect_match returns a string of the canonical form (letters, '-',
\* two digits, '-', four digits) or returns the stripped and substituted
\* string unchanged.
C14_CanonicalOrUnchanged ==
    pc = "returned" => (Canonical(corrected) \/ corrected = Stripped(match))

C14_Witness ==
    /\ pc = "returned"
    /\ match = <<"P","0"," ","7","-","0","-","7">>
    /\ corrected = <<"P","-","0","7","-","0","0","0","0">>

\* the segments of a corrected string: what precedes its first '-' and the
\* two characters after it
PrefixOf(s) == SubSeq(s, 1, Run(s, 1, Upper, Len(s)))
MiddleOf(s) == SubSeq(s, Len(PrefixOf(s)) + 2, Len(PrefixOf(s)) + 3)

\* C15: whenever the prefix recognized in a candidate is one of PO, SPO,
\* RNWS, SGR, SSR the middle segment of the result starts with '2'; with any
\* other prefix the middle segment is the two digits that follow the prefix
\* in the candidate.
C15_PrefixLock ==
    pc = "returned" =>
        IF PrefixOf(corrected) \in
              {<<"P","O">>, <<"S","P","O">>, <<"R","N","W","S">>,
               <<"S","G","R">>, <<"S","S","R">>}
        THEN MiddleOf(corrected)[1] = "2"
        ELSE MiddleOf(corrected) =
                SubSeq(strip_spaces(match), Len(PrefixOf(corrected)) + 1,
                       Len(PrefixOf(corrected)) + 2)

C15_Witness ==
    /\ pc = "returned"
    /\ match = <<"S","S","R","7","7","-","7">>
    /\ corrected = <<"S","S","R","-","2","7","-","0","0","0","7">>

(***************************************************************************)
(* The naming of lines 151-161 on documents that carry many codes.         *)
(***************************************************************************)
\* the i-th candidate with the prefix tok: tok-20-00ii
CodeCand(tok, i) ==
    tok \o <<"-","2","0","-","0","0">> \o zfill(str(i), 2)

\* the candidates of a text with n PO codes and m SPO codes
ManyCodes(n, m) ==
    [k \in 1..(n + m) |->
        IF k <= n THEN CodeCand(<<"P","O">>, k)
        ELSE CodeCand(<<"S","P","O">>, k - n)]

LongTexts == {ManyCodes(n, m) : n \in 0..MaxPO, m \in 0..MaxSPO} \ {<<>>}

NameInit ==
    /\ Quiet
    /\ text \in LongTexts
    /\ final_name = <<>>
    /\ match = <<>>
    /\ corrected = <<>>
    /\ pc = "name"

\* lines 151-161 for the text of the document
NameIt ==
    /\ pc = "name"
    /\ final_name' = joined_final_name(normalized_matches(text))
    /\ pc' = "named"
    /\ UNCHANGED <<config, side, world, path, retries, joined_name,
                   observed>>

NameNext == NameIt

SpecName == NameInit /\ [][NameNext]_vars

\* the codes of the document joined with '_'
JoinedCodes == join(<<"_">>, normalized_matches(text))

\* C16: the final name is the joined codes cut to at most 146 characters,
\* followed by '.pdf': joined codes longer than 146 characters give their
\* first 146 characters and '.pdf', joined codes of 146 characters or fewer
\* are kept whole and followed by '.pdf' once.
C16_Truncation ==
    pc = "named" =>
        final_name = (IF Len(JoinedCodes) > 146
                      THEN SubSeq(JoinedCodes, 1, 146) \o pdf
                      ELSE JoinedCodes \o pdf)

(***************************************************************************)
(* Further properties of the pipeline (Spec).                              *)
(***************************************************************************)
\* C17: final-output and ERROR are directories created on demand: once a
\* document has been relocated to one of them, that directory exists as a
\* directory and holds the document as an entry of its own.
C17_DirectoriesOnDemand ==
    (RETRIES_LOADING_FILE >= 1 /\ "ocr_ok" \in calls) =>
        /\ (calls \cap {"move", "move_plain"} # {})
              => (/\ final_output.kind = "dir"
                  /\ subject \in Range(final_output.entries))
        /\ "quarantine" \in calls
              => (error_dir.exists /\ subject \in Range(error_dir.entries))


\* C18: wait_for_file_ready ends for every integer retry budget: the number
\* of attempts to open the file never exceeds the budget, and is zero for a
\* budget of zero or less, after which the gate reports not-ready.
C18_BoundedAttempts ==
    attempts <= (IF RETRIES_LOADING_FILE > 0 THEN RETRIES_LOADING_FILE ELSE 0)


\* C19: every accepted file whose ingest stage completes is classified: when
\* the handling of a '*.pdf' or '*.PDF' document that was OCR'd and left in
\* place is over, process_pdf has taken it up and, unless the move into
\* final-output raised, the document is in final-output or in ERROR.
C19_AcceptedIsClassified ==
    (Deployed /\ pc = "idle" /\ {"ocr_ok", "leave"} \subseteq calls) =>
        /\ "process_pdf" \in calls
        /\ "move_raised" \notin calls => subject \in InFinal \cup InError


\* C20: classification works on the event's original path, never on the OCR
\* output: no step of process_pdf changes the OCR outputs, and once the
\* original has been deleted or archived after a successful OCR nothing is
\* moved into final-output, no entry is made in ERROR and nothing is raised.
C20_ClassifiesOriginalPath ==
    /\ [][((pc \in {"classify", "extract", "rename", "move", "move_plain",
                    "except"})
            => output_dir' = output_dir)]_vars
    /\ [][((calls \cap {"delete", "archive"} # {})
            => (final_output' = final_output /\ error_dir' = error_dir))]_vars
    /\ []((calls \cap {"delete", "archive"} # {})
            => (/\ pc # "raised"
                /\ subject \notin InFinal \cup InError))

\* an archived original: process_pdf found the path missing and returned
C20_Witness ==
    /\ pc = "idle"
    /\ {"archive", "process_pdf", "extract_raised"} \subseteq calls
    /\ subject \in InArchive
    /\ get_output_dir(path) \in DOMAIN output_dir

=============================================================================
